---- MODULE Spec2Model ----
(***************************************************************************)
(* Model of src/server.py, the Oura Ring MCP server: the module-level      *)
(* credential check and process entry, the Date Window Calculator          *)
(* (get_today_date, get_date_n_days_ago), the Upstream Request Client      *)
(* (make_oura_request) and the twelve tools of the Operation Catalog.      *)
(*                                                                         *)
(* Python values are represented as follows.                               *)
(*   str            a sequence of one-character strings, <<"a","b">>;      *)
(*                  fixed literals the code never slices are TLA+ strings  *)
(*   None / value   None == <<>>, Some(v) == <<v>>                         *)
(*   dict           a function on a set of string keys (a record)          *)
(*   list           a sequence                                             *)
(*   datetime       its calendar part, [year, month, day]                  *)
(***************************************************************************)
EXTENDS Integers, Sequences, FiniteSets, TLC

VARIABLES
    OURA_ACCESS_TOKEN,  \* os.environ.get("OURA_ACCESS_TOKEN"): None or Some(str)
    boot,               \* position of the process: "import", "main", "listening", "failed"
    bootError,          \* the exception that ended the process, "" when none
    stdout,             \* the lines printed so far
    clock,              \* the local calendar date datetime.now() reads
    ticks,              \* number of date changes so far
    inv                 \* the invocations in flight, one record per slot

vars == <<OURA_ACCESS_TOKEN, boot, bootError, stdout, clock, ticks, inv>>

None == <<>>
Some(v) == <<v>>

\* ------------------------------------------------------------------------
\* Bounds of the model
\* ------------------------------------------------------------------------
MaxTicks == 1          \* date changes (midnights) during a run
MaxDays == 40          \* largest ordinary value of n that is enumerated
HugeDays == 1000000    \* a value of days reaching before year 1
FarDays == 400000      \* a value of days reaching a year below 1000

\* ------------------------------------------------------------------------
\* datetime: the proleptic Gregorian calendar arithmetic behind
\* datetime.now() - timedelta(days=days) and strftime("%Y-%m-%d")
\* ------------------------------------------------------------------------
Date(y, m, d) == [year |-> y, month |-> m, day |-> d]

is_leap(y) == y % 4 = 0 /\ (y % 100 # 0 \/ y % 400 = 0)

DAYS_IN_MONTH == <<31, 28, 31, 30, 31, 30, 31, 31, 30, 31, 30, 31>>

DAYS_BEFORE_MONTH == <<0, 31, 59, 90, 120, 151, 181, 212, 243, 273, 304, 334>>

days_before_year(y) ==
    LET p == y - 1 IN p * 365 + (p \div 4) - (p \div 100) + (p \div 400)

days_before_month(y, m) ==
    DAYS_BEFORE_MONTH[m] + (IF m > 2 /\ is_leap(y) THEN 1 ELSE 0)

\* date.toordinal(): 0001-01-01 is day 1
ymd2ord(y, m, d) == days_before_year(y) + days_before_month(y, m) + d

toordinal(dt) == ymd2ord(dt.year, dt.month, dt.day)

MAXYEAR == 9999
MAXORDINAL == ymd2ord(MAXYEAR, 12, 31)
TIMEDELTA_MAX_DAYS == 999999999

\* date.fromordinal(n), for 1 <= n <= MAXORDINAL
ord2ymd(ord) ==
    LET n0   == ord - 1
        n400 == n0 \div 146097
        r400 == n0 % 146097
        n100 == r400 \div 36524
        r100 == r400 % 36524
        n4   == r100 \div 1461
        r4   == r100 % 1461
        n1   == r4 \div 365
        n    == r4 % 365
        y    == n400 * 400 + 1 + n100 * 100 + n4 * 4 + n1
        leap == n1 = 3 /\ (n4 # 24 \/ n100 = 3)
        m0   == (n + 50) \div 32
        p0   == DAYS_BEFORE_MONTH[m0] + (IF m0 > 2 /\ leap THEN 1 ELSE 0)
        m    == IF p0 > n THEN m0 - 1 ELSE m0
        p    == IF p0 > n
                THEN p0 - (DAYS_IN_MONTH[m] + (IF m = 2 /\ leap THEN 1 ELSE 0))
                ELSE p0
    IN  IF n1 = 4 \/ n100 = 4
        THEN Date(y - 1, 12, 31)
        ELSE Date(y, m, n - p + 1)

\* datetime - timedelta(days=days): the set of outcomes, either the one
\* resulting date or the exception raised
OverflowError == "OverflowError"

Raised(e) == [raised |-> e]
Returned(v) == [value |-> v]
IsRaised(o) == "raised" \in DOMAIN o

minus_days(dt, days) ==
    IF days > TIMEDELTA_MAX_DAYS \/ days < -TIMEDELTA_MAX_DAYS
    THEN Raised(OverflowError)
    ELSE LET o == toordinal(dt) - days
         IN  IF 0 < o /\ o <= MAXORDINAL
             THEN Returned(ord2ymd(o))
             ELSE Raised(OverflowError)

\* str of a non-negative integer, and the same zero-padded to width w
Digits == <<"0", "1", "2", "3", "4", "5", "6", "7", "8", "9">>

RECURSIVE NatStr(_)
NatStr(n) == IF n < 10 THEN <<Digits[n + 1]>>
             ELSE NatStr(n \div 10) \o <<Digits[(n % 10) + 1]>>

ZeroPad(n, w) ==
    LET s == NatStr(n)
    IN  IF Len(s) >= w THEN s ELSE [i \in 1..(w - Len(s)) |-> "0"] \o s

\* strftime("%Y-%m-%d"): the strings the platform's strftime can produce.
\* %Y of a year below 1000 is zero-padded to four digits or not, depending on
\* the C library and the Python version; from year 1000 on there is one result.
strftime_Ymd(dt) ==
    LET rest == <<"-">> \o ZeroPad(dt.month, 2) \o <<"-">> \o ZeroPad(dt.day, 2)
    IN  {ZeroPad(dt.year, 4) \o rest} \cup
        (IF dt.year < 1000 THEN {NatStr(dt.year) \o rest} ELSE {})

\* ------------------------------------------------------------------------
\* Date Window Calculator
\* ------------------------------------------------------------------------
\* get_today_date(), with now the date datetime.now() reads: the set of
\* possible return values
get_today_date(now) == {Returned(s) : s \in strftime_Ymd(now)}

\* variant: the timedelta added instead of subtracted
get_date_n_days_ago_added(now, days) ==
    LET r == minus_days(now, -days)
    IN  IF IsRaised(r) THEN {r}
        ELSE {Returned(s) : s \in strftime_Ymd(r.value)}

\* get_date_n_days_ago(days): the set of possible outcomes
get_date_n_days_ago(now, days) ==
    LET r == minus_days(now, days)
    IN  IF IsRaised(r) THEN {r}
        ELSE {Returned(s) : s \in strftime_Ymd(r.value)}

\* ------------------------------------------------------------------------
\* Configuration and process entry
\* ------------------------------------------------------------------------
OURA_API_BASE == "https://api.ouraring.com/v2/usercollection"
REQUEST_TIMEOUT == 10
TOKEN_PREFIX_LEN == 10
DEFAULT_PORT == 8000
DEFAULT_DAYS == 30

\* Python truthiness of an optional str: None and "" are both false
Truthy(opt) == opt # None /\ opt[1] # <<>>

\* s[:n]
Prefix(s, n) == SubSeq(s, 1, IF Len(s) < n THEN Len(s) ELSE n)

\* variant: the credential check left out
CredentialNeverMissing(tok) == FALSE

\* if not OURA_ACCESS_TOKEN: raise ValueError(...)
CredentialMissing(tok) == ~Truthy(tok)

\* the two lines __main__ prints, as the pieces of their f-strings
StartupLines(tok, port) ==
    << <<"Starting Oura Ring MCP server on ", "0.0.0.0", ":", NatStr(port)>>,
       <<"Connected to Oura API with token: ", Prefix(tok[1], TOKEN_PREFIX_LEN), "...">> >>

\* ------------------------------------------------------------------------
\* Upstream Request Client
\* ------------------------------------------------------------------------
\* variant: the end_date test nested under the start_date test
QueryParamsNested(start_date, end_date) ==
    LET keys == IF Truthy(start_date)
                THEN {"start_date"} \cup (IF Truthy(end_date) THEN {"end_date"} ELSE {})
                ELSE {}
    IN  [k \in keys |-> IF k = "start_date" THEN start_date[1] ELSE end_date[1]]

\* params = {}; if start_date: ...; if end_date: ...
QueryParams(start_date, end_date) ==
    LET keys == (IF Truthy(start_date) THEN {"start_date"} ELSE {}) \cup
                (IF Truthy(end_date) THEN {"end_date"} ELSE {})
    IN  [k \in keys |-> IF k = "start_date" THEN start_date[1] ELSE end_date[1]]

\* the GET make_oura_request issues
BuildRequest(tok, endpoint, start_date, end_date) ==
    [method  |-> "GET",
     url     |-> OURA_API_BASE \o "/" \o endpoint,
     headers |-> ("Authorization" :> (<<"B", "e", "a", "r", "e", "r", " ">> \o tok[1]))
                 @@ ("Content-Type" :> <<"application/json">>),
     params  |-> QueryParams(start_date, end_date),
     timeout |-> REQUEST_TIMEOUT]

\* What the network gives back for one GET: requests.get raises exc, or a
\* response arrives with a status and a body that is JSON (Some) or not (None)
Event(exc, status, body) == [exc |-> exc, status |-> status, body |-> body]

\* the exception, "" when none, that lines 37-39 raise on an event
RaisedIn(ev) ==
    IF ev.exc # "" THEN ev.exc
    ELSE IF 400 <= ev.status /\ ev.status < 600 THEN "HTTPError"
    ELSE IF ev.body = None THEN "JSONDecodeError"
    ELSE ""

\* variant: an except clause naming ConnectionError and HTTPError only
IsConnectionOrHTTPError(e) == e \in {"ConnectionError", "HTTPError"}

\* the classes of requests.exceptions.RequestException
IsRequestException(e) ==
    e \in {"ConnectionError", "ConnectTimeout", "ReadTimeout", "HTTPError",
           "JSONDecodeError"}

\* str(e)
ExcStr(e, ev, url) ==
    CASE e = "ConnectionError" -> "Max retries exceeded with url: " \o url
      [] e = "ConnectTimeout"  -> "Connection timed out: " \o url
      [] e = "ReadTimeout"     -> "Read timed out: " \o url
      [] e = "HTTPError"       ->
            (IF ev.status < 500 THEN "Client Error for url: "
                                ELSE "Server Error for url: ") \o url
      [] e = "JSONDecodeError" -> "Expecting value: line 1 column 1 (char 0)"
      [] OTHER                 -> ""

\* lines 36-41: what make_oura_request does with the event of its GET
CompleteRequest(ev, url) ==
    LET e == RaisedIn(ev)
    IN  IF e = "" THEN Returned(ev.body[1])
        ELSE IF IsRequestException(e) THEN Returned([error |-> ExcStr(e, ev, url)])
        ELSE Raised(e)

\* ------------------------------------------------------------------------
\* Operation Catalog
\* ------------------------------------------------------------------------
LastEntryTools == {"get_sleep_last_night", "get_readiness_today", "get_activity_today",
                   "get_daily_stress", "get_daily_resilience"}
RawTodayTools == {"get_workouts_today"}
CurrentDayTools == LastEntryTools \cup RawTodayTools
TrendTools == {"get_sleep_trends", "get_readiness_trends", "get_activity_trends",
               "get_stress_trends", "get_resilience_trends", "get_vo2_max_trends"}
Tools == CurrentDayTools \cup TrendTools

Endpoint(op) ==
    CASE op \in {"get_sleep_last_night", "get_sleep_trends"}         -> "sleep"
      [] op \in {"get_readiness_today", "get_readiness_trends"}      -> "daily_readiness"
      [] op \in {"get_activity_today", "get_activity_trends"}        -> "daily_activity"
      [] op \in {"get_daily_stress", "get_stress_trends"}            -> "daily_stress"
      [] op \in {"get_daily_resilience", "get_resilience_trends"}    -> "daily_resilience"
      [] op = "get_workouts_today"                                   -> "workout"
      [] op = "get_vo2_max_trends"                                   -> "vO2_max"

\* variant: index 0 instead of -1
FirstEntry(result) ==
    IF "data" \in DOMAIN result /\ Len(result.data) > 0
    THEN result.data[1]
    ELSE result

\* variant: the data list unwrapped whenever the key is there (a [-1:] slice)
LastSlice(result) ==
    IF "data" \in DOMAIN result
    THEN (IF Len(result.data) > 0 THEN result.data[Len(result.data)] ELSE result.data)
    ELSE result

\* if "data" in result and len(result["data"]) > 0: return result["data"][-1]
\* return result
LastEntry(result) ==
    IF "data" \in DOMAIN result /\ Len(result.data) > 0
    THEN result.data[Len(result.data)]
    ELSE result

\* what a tool returns, given what make_oura_request returned; a direct
\* call of make_oura_request gets the result itself
PostProcess(op, result) ==
    IF op \in LastEntryTools THEN LastEntry(result) ELSE result

\* ------------------------------------------------------------------------
\* Inputs
\* ------------------------------------------------------------------------
Invocations == {"i1", "i2"}     \* slots for tool calls the runtime has in flight
UnitSlots == {"i1"}             \* the slot the unit-level specifications use

TokenValues == {<<>>,
                <<"0", "1", "2", "3", "4", "5", "6", "7", "8", "9">>,
                <<"0", "1", "2", "3", "4", "5", "6", "7", "8", "9", "X">>}
Environments == {None} \cup {Some(t) : t \in TokenValues}

StartDates == {Date(2024, 3, 15)}
BaseDates == {Date(2024, 3, 15), Date(2024, 3, 1), Date(2024, 1, 1), Date(2023, 3, 1),
              Date(2100, 3, 1), Date(2000, 3, 31)}

DaysArgs == {-1, 7, DEFAULT_DAYS, HugeDays}
UnitDays == (0..MaxDays) \cup {FarDays, HugeDays}

Bodies == {[data |-> <<>>],
           [data |-> <<[id |-> 1], [id |-> 2]>>],
           [detail |-> "Not Found"]}
\* the events of a GET: for the tools, and the wider set for direct calls
ToolEvents == {Event("ReadTimeout", 0, None), Event("", 500, None)}
              \cup {Event("", 200, Some(b)) : b \in Bodies}
Events == ToolEvents \cup
          {Event("ConnectionError", 0, None), Event("ConnectTimeout", 0, None),
           Event("", 401, Some([detail |-> "Unauthorized"])),
           Event("", 200, Some([data |-> <<[id |-> 1]>>])),
           Event("", 200, None)}

Endpoints == {Endpoint(op) : op \in Tools}
DateArgs == {None, Some(<<>>)} \cup
            {Some(r.value) : r \in get_today_date(Date(2024, 3, 15))
                                   \cup get_date_n_days_ago(Date(2024, 3, 15), 7)}

\* ------------------------------------------------------------------------
\* State
\* ------------------------------------------------------------------------
\* pc: "idle", "L130" (a trend tool between its two clock reads), "waiting"
\* (the GET is out), "done" (returned or raised); reqs: the GETs issued;
\* event: None, or Some(ev), what came back for the GET;
\* out: None, or Some(Returned(v)) / Some(Raised(e))
IdleSlot == [pc |-> "idle", op |-> "", days |-> 0, start_date |-> None,
             end_date |-> None, reqs |-> <<>>, event |-> None, out |-> None]

Init ==
    /\ OURA_ACCESS_TOKEN \in Environments
    /\ boot = "import"
    /\ bootError = ""
    /\ stdout = <<>>
    /\ clock \in StartDates
    /\ ticks = 0
    /\ inv = [i \in Invocations |-> IdleSlot]

\* lines 9-18: the module body; raises ValueError without a credential
ImportModule ==
    /\ boot = "import"
    /\ IF CredentialMissing(OURA_ACCESS_TOKEN)
       THEN boot' = "failed" /\ bootError' = "ValueError"
       ELSE boot' = "main" /\ bootError' = ""
    /\ UNCHANGED <<OURA_ACCESS_TOKEN, stdout, clock, ticks, inv>>

\* lines 175-179: read PORT (unset here, so the default) and print
StartupLog ==
    /\ boot = "main"
    /\ IF OURA_ACCESS_TOKEN = None
       THEN boot' = "failed" /\ bootError' = "TypeError" /\ stdout' = stdout
       ELSE /\ boot' = "logged"
            /\ stdout' = stdout \o StartupLines(OURA_ACCESS_TOKEN, DEFAULT_PORT)
            /\ UNCHANGED bootError
    /\ UNCHANGED <<OURA_ACCESS_TOKEN, clock, ticks, inv>>

\* lines 181-186: mcp.run binds the HTTP listener
Serve ==
    /\ boot = "logged"
    /\ boot' = "listening"
    /\ UNCHANGED <<OURA_ACCESS_TOKEN, bootError, stdout, clock, ticks, inv>>

\* the local date changes
Tick ==
    /\ ticks < MaxTicks
    /\ ticks' = ticks + 1
    /\ clock' = ord2ymd(toordinal(clock) + 1)
    /\ UNCHANGED <<OURA_ACCESS_TOKEN, boot, bootError, stdout, inv>>

\* a current-day tool up to the GET: today = get_today_date();
\* make_oura_request(endpoint, start_date=today, end_date=today)
CallCurrentDay(i, op) ==
    /\ boot = "listening"
    /\ inv[i].pc = "idle"
    /\ \E t \in get_today_date(clock) :
          inv' = [inv EXCEPT ![i] =
                    [pc |-> "waiting", op |-> op, days |-> 0,
                     start_date |-> Some(t.value), end_date |-> Some(t.value),
                     reqs |-> <<BuildRequest(OURA_ACCESS_TOKEN, Endpoint(op),
                                             Some(t.value), Some(t.value))>>,
                     event |-> None, out |-> None]]
    /\ UNCHANGED <<OURA_ACCESS_TOKEN, boot, bootError, stdout, clock, ticks>>

\* a trend tool's first line: start_date = get_date_n_days_ago(days)
CallTrend(i, op, days) ==
    /\ boot = "listening"
    /\ inv[i].pc = "idle"
    /\ \E r \in get_date_n_days_ago(clock, days) :
          inv' = [inv EXCEPT ![i] =
                    IF IsRaised(r)
                    THEN [IdleSlot EXCEPT !.pc = "done", !.op = op, !.days = days,
                                          !.out = Some(r)]
                    ELSE [IdleSlot EXCEPT !.pc = "L130", !.op = op, !.days = days,
                                          !.start_date = Some(r.value)]]
    /\ UNCHANGED <<OURA_ACCESS_TOKEN, boot, bootError, stdout, clock, ticks>>

\* a trend tool's second and third lines up to the GET:
\* end_date = get_today_date(); make_oura_request(endpoint, start_date, end_date)
TrendRequest(i) ==
    /\ inv[i].pc = "L130"
    /\ \E t \in get_today_date(clock) :
          inv' = [inv EXCEPT ![i].pc = "waiting",
                             ![i].end_date = Some(t.value),
                             ![i].reqs = Append(@, BuildRequest(OURA_ACCESS_TOKEN,
                                            Endpoint(inv[i].op), inv[i].start_date,
                                            Some(t.value)))]
    /\ UNCHANGED <<OURA_ACCESS_TOKEN, boot, bootError, stdout, clock, ticks>>

\* what the caller of make_oura_request does with its outcome
Finish(op, o) ==
    IF IsRaised(o) THEN o ELSE Returned(PostProcess(op, o.value))

\* the GET ends with event ev: make_oura_request returns, the tool
\* post-processes and returns
Respond(i, ev) ==
    /\ inv[i].pc = "waiting"
    /\ inv' = [inv EXCEPT ![i].pc = "done",
                          ![i].event = Some(ev),
                          ![i].out = Some(Finish(inv[i].op,
                                        CompleteRequest(ev, inv[i].reqs[Len(inv[i].reqs)].url)))]
    /\ UNCHANGED <<OURA_ACCESS_TOKEN, boot, bootError, stdout, clock, ticks>>

\* the runtime has delivered the result; nothing of the invocation is kept
Forget(i) ==
    /\ inv[i].pc = "done"
    /\ inv' = [inv EXCEPT ![i] = IdleSlot]
    /\ UNCHANGED <<OURA_ACCESS_TOKEN, boot, bootError, stdout, clock, ticks>>

Next ==
    \/ ImportModule
    \/ StartupLog
    \/ Serve
    \/ Tick
    \/ \E i \in Invocations, op \in CurrentDayTools : CallCurrentDay(i, op)
    \/ \E i \in Invocations, op \in TrendTools, days \in DaysArgs : CallTrend(i, op, days)
    \/ \E i \in Invocations : TrendRequest(i)
    \/ \E i \in Invocations, ev \in ToolEvents : Respond(i, ev)
    \/ \E i \in Invocations : Forget(i)

Spec == Init /\ [][Next]_vars

\* ------------------------------------------------------------------------
\* Unit-level specifications: the helpers called directly, in a process
\* that has started with a credential
\* ------------------------------------------------------------------------
UnitToken == Some(<<"0", "1", "2", "3", "4", "5", "6", "7", "8", "9", "X">>)

InitStarted(dates) ==
    /\ OURA_ACCESS_TOKEN = UnitToken
    /\ boot = "listening"
    /\ bootError = ""
    /\ stdout = StartupLines(UnitToken, DEFAULT_PORT)
    /\ clock \in dates
    /\ ticks = 0
    /\ inv = [i \in Invocations |-> IdleSlot]

\* get_date_n_days_ago(n) called and returned (or raised)
CallDaysAgo(i, n) ==
    /\ inv[i].pc = "idle"
    /\ \E r \in get_date_n_days_ago(clock, n) :
          inv' = [inv EXCEPT ![i] =
                    [IdleSlot EXCEPT !.pc = "done", !.op = "get_date_n_days_ago",
                                     !.days = n, !.out = Some(r)]]
    /\ UNCHANGED <<OURA_ACCESS_TOKEN, boot, bootError, stdout, clock, ticks>>

InitDate == InitStarted(BaseDates)

NextDate ==
    \/ \E i \in UnitSlots, n \in UnitDays : CallDaysAgo(i, n)
    \/ \E i \in UnitSlots : Forget(i)

SpecDate == InitDate /\ [][NextDate]_vars

\* make_oura_request(endpoint, start_date, end_date) called, up to its GET
CallRequest(i, endpoint, start_date, end_date) ==
    /\ inv[i].pc = "idle"
    /\ inv' = [inv EXCEPT ![i] =
                 [IdleSlot EXCEPT !.pc = "waiting", !.op = "make_oura_request",
                                  !.start_date = start_date, !.end_date = end_date,
                                  !.reqs = <<BuildRequest(OURA_ACCESS_TOKEN, endpoint,
                                                          start_date, end_date)>>]]
    /\ UNCHANGED <<OURA_ACCESS_TOKEN, boot, bootError, stdout, clock, ticks>>

InitRequest == InitStarted(StartDates)

NextRequest ==
    \/ \E i \in UnitSlots, e \in Endpoints, s \in DateArgs, t \in DateArgs :
          CallRequest(i, e, s, t)
    \/ \E i \in UnitSlots, ev \in Events : Respond(i, ev)
    \/ \E i \in UnitSlots : Forget(i)

SpecRequest == InitRequest /\ [][NextRequest]_vars

\* ------------------------------------------------------------------------
\* Vocabulary of the properties
\* ------------------------------------------------------------------------
Done(i) == inv[i].pc = "done"
Issued(i) == Len(inv[i].reqs) > 0
TheRequest(i) == inv[i].reqs[1]
TheEvent(i) == inv[i].event[1]
TheOutcome(i) == inv[i].out[1]

\* connection refusal, timeout, non-2xx status
TransportFailure(ev) == ev.exc # "" \/ ~(200 <= ev.status /\ ev.status < 300)

IsDigit(c) == \E d \in 0..9 : Digits[d + 1] = c
DigitVal(c) == CHOOSE d \in 0..9 : Digits[d + 1] = c

RECURSIVE Num(_)
Num(cs) == IF cs = <<>> THEN 0
           ELSE 10 * Num(SubSeq(cs, 1, Len(cs) - 1)) + DigitVal(cs[Len(cs)])

\* the form YYYY-MM-DD
IsYmdForm(s) ==
    /\ Len(s) = 10
    /\ s[5] = "-" /\ s[8] = "-"
    /\ \A k \in {1, 2, 3, 4, 6, 7, 9, 10} : IsDigit(s[k])

ParseYmd(s) == Date(Num(SubSeq(s, 1, 4)), Num(SubSeq(s, 6, 7)), Num(SubSeq(s, 9, 10)))

\* the Gregorian calendar, stated independently of the datetime arithmetic
GregorianLeap(y) == (y % 400 = 0) \/ (y % 4 = 0 /\ y % 100 # 0)

GregorianMonthLength(y, m) ==
    CASE m \in {1, 3, 5, 7, 8, 10, 12} -> 31
      [] m \in {4, 6, 9, 11}           -> 30
      [] m = 2                         -> IF GregorianLeap(y) THEN 29 ELSE 28

IsCalendarDate(d) ==
    /\ d.month \in 1..12
    /\ d.day >= 1 /\ d.day <= GregorianMonthLength(d.year, d.month)

\* the Julian day number of a Gregorian date (the usual day-count formula)
JulianDay(d) ==
    LET a == (14 - d.month) \div 12
        y == d.year + 4800 - a
        m == d.month + 12 * a - 3
    IN  d.day + ((153 * m + 2) \div 5) + 365 * y + (y \div 4) - (y \div 100)
        + (y \div 400) - 32045

\* s is the YYYY-MM-DD form of the calendar date exactly n days before now
IsDateDaysBefore(s, now, n) ==
    /\ IsYmdForm(s)
    /\ IsCalendarDate(ParseYmd(s))
    /\ JulianDay(now) - JulianDay(ParseYmd(s)) = n

ParamFollowsInput(params, key, arg) ==
    /\ arg = None => key \notin DOMAIN params
    /\ (arg # None /\ IsYmdForm(arg[1])) => (key \in DOMAIN params /\ params[key] = arg[1])

C2_ParamsFollowInputs ==
    \A i \in Invocations :
        (Issued(i) /\ inv[i].op = "make_oura_request")
        => /\ ParamFollowsInput(TheRequest(i).params, "start_date", inv[i].start_date)
           /\ ParamFollowsInput(TheRequest(i).params, "end_date", inv[i].end_date)
           /\ DOMAIN TheRequest(i).params \subseteq {"start_date", "end_date"}

C2_Witness ==
    \E i \in Invocations :
        /\ Issued(i) /\ inv[i].op = "make_oura_request"
        /\ inv[i].start_date = None
        /\ inv[i].end_date # None /\ IsYmdForm(inv[i].end_date[1])
        /\ DOMAIN TheRequest(i).params = {"end_date"}

\* ------------------------------------------------------------------------
\* C3: each of the five last-entry tools, given an upstream body whose
\* "data" sequence is non-empty, returns exactly the last element of it;
\* {"data": [{"id":1},{"id":2}]} yields {"id":2}.
\* ------------------------------------------------------------------------
HasData(ev) ==
    /\ ~TransportFailure(ev)
    /\ ev.body # None
    /\ "data" \in DOMAIN ev.body[1]
    /\ ev.body[1].data # <<>>

C3_LastElementReturned ==
    \A i \in Invocations :
        (Done(i) /\ inv[i].op \in LastEntryTools /\ HasData(TheEvent(i)))
        => LET data == TheEvent(i).body[1].data
           IN  /\ TheOutcome(i) = Returned(data[Len(data)])
               /\ (data = <<[id |-> 1], [id |-> 2]>>
                      => TheOutcome(i) = Returned([id |-> 2]))

C3_Witness ==
    \E i \in Invocations :
        /\ Done(i) /\ inv[i].op = "get_daily_resilience"
        /\ HasData(TheEvent(i))
        /\ TheEvent(i).body[1].data = <<[id |-> 1], [id |-> 2]>>
        /\ TheOutcome(i) = Returned([id |-> 2])

\* ------------------------------------------------------------------------
\* C4: a current-day tool whose request result has no non-empty "data"
\* sequence (an empty {"data": []} body, a body without "data", or the
\* {"error": ...} mapping of a failed request) returns that result
\* unmodified and does not fail.
\* ------------------------------------------------------------------------
C4_EmptyOrErrorPassedThrough ==
    \A i \in Invocations :
        (Done(i) /\ inv[i].op \in CurrentDayTools /\ ~HasData(TheEvent(i)))
        => /\ ~IsRaised(TheOutcome(i))
           /\ IF TransportFailure(TheEvent(i)) \/ TheEvent(i).body = None
              THEN /\ DOMAIN TheOutcome(i).value = {"error"}
                   /\ Returned(TheOutcome(i).value)
                        = CompleteRequest(TheEvent(i), TheRequest(i).url)
              ELSE TheOutcome(i).value = TheEvent(i).body[1]

C4_Witness ==
    \E i, j \in Invocations :
        /\ Done(i) /\ inv[i].op = "get_sleep_last_night"
        /\ TheEvent(i) = Event("", 200, Some([data |-> <<>>]))
        /\ TheOutcome(i) = Returned([data |-> <<>>])
        /\ Done(j) /\ inv[j].op = "get_readiness_today"
        /\ TheEvent(j).status = 500
        /\ DOMAIN TheOutcome(j).value = {"error"}

\* ------------------------------------------------------------------------
\* C5: the request of a trend tool carries start_date and end_date taken
\* relative to the same current date, so that end_date minus start_date is
\* exactly days, whenever the invocation runs relative to a date change
\* (stated here for the non-negative values of days).
\* ------------------------------------------------------------------------
WindowDays(req) ==
    JulianDay(ParseYmd(req.params["end_date"])) - JulianDay(ParseYmd(req.params["start_date"]))

C5_TrendWindowIsDays ==
    \A i \in Invocations :
        (Issued(i) /\ inv[i].op \in TrendTools /\ inv[i].days >= 0)
        => /\ DOMAIN TheRequest(i).params = {"start_date", "end_date"}
           /\ WindowDays(TheRequest(i)) = inv[i].days

\* ------------------------------------------------------------------------
\* C6: without a credential (OURA_ACCESS_TOKEN unset, or set to the empty
\* string) startup fails with the configuration error before anything is
\* printed, before the listener is bound and before any tool runs or any
\* request goes out.
\* ------------------------------------------------------------------------
C6_NoListenerWithoutCredential ==
    (OURA_ACCESS_TOKEN = None \/ OURA_ACCESS_TOKEN = Some(<<>>))
    => /\ boot \in {"import", "failed"}
       /\ boot = "failed" => bootError = "ValueError"
       /\ stdout = <<>>
       /\ \A i \in Invocations : inv[i] = IdleSlot

C6_Witness ==
    /\ OURA_ACCESS_TOKEN = None
    /\ boot = "failed"
    /\ bootError = "ValueError"

\* ------------------------------------------------------------------------
\* C7: for every credential the process starts with, the startup line shows
\* the first 10 characters of the token and never the full token.
\* ------------------------------------------------------------------------
C7_TokenNeverPrintedInFull ==
    boot \in {"logged", "listening"}
    => /\ stdout[2][2] = Prefix(OURA_ACCESS_TOKEN[1], TOKEN_PREFIX_LEN)
       /\ stdout[2][2] # OURA_ACCESS_TOKEN[1]

\* ------------------------------------------------------------------------
\* C8 as stated: for every non-negative n, get_date_n_days_ago(n) returns
\* the YYYY-MM-DD form of the date exactly n days before the current date,
\* and get_date_n_days_ago(0) equals get_today_date().
\* ------------------------------------------------------------------------
DaysAgoIsRight(i) ==
    /\ ~IsRaised(TheOutcome(i))
    /\ IsDateDaysBefore(TheOutcome(i).value, clock, inv[i].days)
    /\ (clock = Date(2024, 3, 15) /\ inv[i].days = 30)
          => TheOutcome(i).value = <<"2", "0", "2", "4", "-", "0", "2", "-", "1", "4">>
    /\ inv[i].days = 0 => TheOutcome(i) \in get_today_date(clock)

C8_EveryNonNegativeN ==
    \A i \in Invocations :
        (Done(i) /\ inv[i].op = "get_date_n_days_ago" /\ inv[i].days >= 0)
        => DaysAgoIsRight(i)

\* C8 as amended: the same for every non-negative n for which the date n
\* days before the current date is 1000-01-01 or later.
C8_DaysAgoWithinRange ==
    \A i \in Invocations :
        (/\ Done(i) /\ inv[i].op = "get_date_n_days_ago" /\ inv[i].days >= 0
         /\ JulianDay(clock) - inv[i].days >= JulianDay(Date(1000, 1, 1)))
        => DaysAgoIsRight(i)

C8_Witness ==
    \E i \in Invocations :
        /\ Done(i) /\ inv[i].op = "get_date_n_days_ago"
        /\ clock = Date(2024, 3, 15) /\ inv[i].days = 30
        /\ TheOutcome(i) = Returned(<<"2", "0", "2", "4", "-", "0", "2", "-", "1", "4">>)

\* ------------------------------------------------------------------------
\* C9: every request a tool constructs has start_date no later than
\* end_date, for every tool and every integer days; the current-day tools
\* send start_date equal to end_date.
\* ------------------------------------------------------------------------
C9_WindowNeverForward ==
    \A i \in Invocations :
        (Issued(i) /\ inv[i].op \in Tools)
        => /\ WindowDays(TheRequest(i)) >= 0
           /\ inv[i].op \in CurrentDayTools
                 => TheRequest(i).params["start_date"] = TheRequest(i).params["end_date"]

\* ------------------------------------------------------------------------
\* C10: every invocation of a tool issues exactly one GET and then returns a
\* value (the upstream body, its last element, or an {"error": ...}
\* mapping); the GET is never issued again.
\* ------------------------------------------------------------------------
C10_OneGetThenAValue ==
    \A i \in Invocations :
        /\ Len(inv[i].reqs) <= 1
        /\ (Done(i) /\ inv[i].op \in Tools)
              => /\ Len(inv[i].reqs) = 1
                 /\ ~IsRaised(TheOutcome(i))

====
